---- MODULE Spec2Model ----
(***************************************************************************)
(* Model of the Malaysian Tax Input Program (src/functions.py, src/main.py)*)
(*                                                                         *)
(* Text is a sequence of one-character strings.  Money is an integer       *)
(* number of sen (1/100 RM).  A Python value is a record [t, s, v]: its    *)
(* type tag, its text (str, and the decimal digits of an int64) and its    *)
(* amount in sen (float).                                                  *)
(***************************************************************************)
EXTENDS Integers, Sequences, FiniteSets, TLC

VARIABLES
    call,        \* the last call of a library function: its arguments and result
    files,       \* the working directory: file name -> NoFile or its lines
    saved,       \* history: file name -> the dicts save_to_csv was given, in order
    regs,        \* history: the registrations that succeeded, in order
    pc,          \* main(): the statement it is at
    user,        \* main(): the local `user`
    ic,          \* main(): the local `ic`
    amounts,     \* main(): the locals `income`, `relief`
    tax_payable  \* main(): the local `tax_payable`

vars == <<call, files, saved, regs, pc, user, ic, amounts, tax_payable>>

\* ------------------------------------------------------------------ values

Digits == <<"0", "1", "2", "3", "4", "5", "6", "7", "8", "9">>

DigitSet == {Digits[i] : i \in 1..10}

\* the text of a sequence of digit values
D(ds) == [i \in 1..Len(ds) |-> Digits[ds[i] + 1]]

DigitVal(c) == (CHOOSE i \in 1..10 : Digits[i] = c) - 1

Str(s) == [t |-> "str", s |-> s, v |-> 0]
Num(x) == [t |-> "float", s |-> <<>>, v |-> x]
Int64(ds) == [t |-> "int", s |-> ds, v |-> 0]
NaN == [t |-> "nan", s |-> <<>>, v |-> 0]
None == [t |-> "None", s |-> <<>>, v |-> 0]

Max(a, b) == IF a >= b THEN a ELSE b
Min(a, b) == IF a <= b THEN a ELSE b

\* s[-n:]
LastN(s, n) == SubSeq(s, Max(1, Len(s) - n + 1), Len(s))

\* str.isdigit on one character (ASCII digits; other Unicode digits are outside the alphabet)
IsDigit(c) == c \in DigitSet

AllDigits(s) == \A i \in 1..Len(s) : IsDigit(s[i])

\* str.strip(): leading and trailing blanks removed
RECURSIVE Strip(_)
Strip(s) ==
    IF s = <<>> THEN s
    ELSE IF Head(s) = " " THEN Strip(Tail(s))
    ELSE IF s[Len(s)] = " " THEN Strip(SubSeq(s, 1, Len(s) - 1))
    ELSE s

\* the value of a digit string, most significant digit first
RECURSIVE DigitsVal(_)
DigitsVal(s) ==
    IF s = <<>> THEN 0
    ELSE 10 * DigitsVal(SubSeq(s, 1, Len(s) - 1)) + DigitVal(s[Len(s)])

\* the decimal digits of a natural number
RECURSIVE IntDigits(_)
IntDigits(n) ==
    IF n < 10 THEN <<Digits[n + 1]>>
    ELSE IntDigits(n \div 10) \o <<Digits[(n % 10) + 1]>>

\* the position of the first "." of s, 0 when it has none
DotPos(s) ==
    IF \E i \in 1..Len(s) : s[i] = "."
    THEN CHOOSE i \in 1..Len(s) : s[i] = "." /\ \A j \in 1..(i - 1) : s[j] # "."
    ELSE 0

\* a decimal literal without its sign: digits, optionally a "." and digits,
\* at least one digit in all
IsDecimal(body) ==
    LET p == DotPos(body)
        ip == IF p = 0 THEN body ELSE SubSeq(body, 1, p - 1)
        fp == IF p = 0 THEN <<>> ELSE SubSeq(body, p + 1, Len(body))
    IN  AllDigits(ip) /\ AllDigits(fp) /\ Len(ip) + Len(fp) >= 1

\* the amount in sen of a decimal literal without its sign (the model's grid
\* is the sen: literals carry at most two fractional digits)
DecimalVal(body) ==
    LET p == DotPos(body)
        ip == IF p = 0 THEN body ELSE SubSeq(body, 1, p - 1)
        fp == IF p = 0 THEN <<>> ELSE SubSeq(body, p + 1, Len(body))
        f2 == SubSeq(fp \o <<"0", "0">>, 1, 2)
    IN  100 * DigitsVal(ip) + DigitsVal(f2)

HasSign(s) == s # <<>> /\ Head(s) \in {"-", "+"}

Unsigned(s) == IF HasSign(s) THEN Tail(s) ELSE s

\* float(text): blanks stripped, an optional sign, a decimal literal
\* (exponents, "inf", "nan" and "_" are outside the alphabet)
IsFloatText(s) == IsDecimal(Unsigned(Strip(s)))

FloatOfText(s) ==
    LET b == Strip(s)
    IN  IF HasSign(b) /\ Head(b) = "-" THEN 0 - DecimalVal(Tail(b))
        ELSE DecimalVal(Unsigned(b))

\* repr(float) as to_csv and str() write it: the shortest decimal that reads back
FloatRepr(x) ==
    LET a == IF x < 0 THEN 0 - x ELSE x
        frac == a % 100
        ftxt == IF frac % 10 = 0 THEN <<Digits[(frac \div 10) + 1]>>
                ELSE <<Digits[(frac \div 10) + 1], Digits[(frac % 10) + 1]>>
    IN  (IF x < 0 THEN <<"-">> ELSE <<>>) \o IntDigits(a \div 100) \o <<".">> \o ftxt

\* ------------------------------------------------------------ calculate_tax

\* float('inf'), the upper bound of the last band: above every amount of the model
Inf == 2000000000

\* the band table: (upper_limit, base_tax, rate_on_excess), amounts in sen and
\* the rate in percent
brackets ==
    << [upper |-> 5000 * 100,    base |-> 0,            rate |-> 0],
       [upper |-> 20000 * 100,   base |-> 0,            rate |-> 1],
       [upper |-> 35000 * 100,   base |-> 150 * 100,    rate |-> 3],
       [upper |-> 50000 * 100,   base |-> 600 * 100,    rate |-> 6],
       [upper |-> 70000 * 100,   base |-> 1500 * 100,   rate |-> 11],
       [upper |-> 100000 * 100,  base |-> 3700 * 100,   rate |-> 19],
       [upper |-> 400000 * 100,  base |-> 9400 * 100,   rate |-> 25],
       [upper |-> 600000 * 100,  base |-> 84400 * 100,  rate |-> 26],
       [upper |-> 2000000 * 100, base |-> 136400 * 100, rate |-> 28],
       [upper |-> Inf,           base |-> 528400 * 100, rate |-> 30] >>

\* float(x): a number is itself, text is parsed, anything else raises
ToFloat(x) ==
    IF x.t = "float" THEN [ok |-> TRUE, v |-> x.v]
    ELSE IF x.t = "str" /\ IsFloatText(x.s) THEN [ok |-> TRUE, v |-> FloatOfText(x.s)]
    ELSE [ok |-> FALSE, v |-> 0]

ParseArgs_ReliefDefault(income, tax_relief) ==
    [ok |-> ToFloat(income).ok, income |-> ToFloat(income).v,
     tax_relief |-> ToFloat(tax_relief).v]

\* the try block: both conversions, any exception turned into ValueError
ParseArgs(income, tax_relief) ==
    [ok |-> ToFloat(income).ok /\ ToFloat(tax_relief).ok,
     income |-> ToFloat(income).v, tax_relief |-> ToFloat(tax_relief).v]

Chargeable_Abs(income, tax_relief) ==
    IF income - tax_relief < 0 THEN tax_relief - income ELSE income - tax_relief

Chargeable_Swapped(income, tax_relief) == Max(0, tax_relief - income)

\* chargeable = max(0.0, income - tax_relief)
Chargeable(income, tax_relief) == Max(0, income - tax_relief)

TaxableInBand_NoClip(chargeable, upper, lower) == chargeable - lower

\* taxable_in_band = min(chargeable, upper) - lower
TaxableInBand(chargeable, upper, lower) == Min(chargeable, upper) - lower

\* An exact amount of tax: sen, and e4 hundredths of a sen (0..99).  The
\* product of an amount in sen and a rate in percent is exact in this unit;
\* it is computed from the ringgit and the sen of the amount separately.
Zero == [sen |-> 0, e4 |-> 0]

Product(amount, rate) ==
    LET r == amount \div 100
        s == amount % 100
    IN  [sen |-> r * rate + ((s * rate) \div 100), e4 |-> (s * rate) % 100]

Add(a, b) ==
    [sen |-> a.sen + b.sen + ((a.e4 + b.e4) \div 100), e4 |-> (a.e4 + b.e4) % 100]

\* the zero-rate branch and the general one
Incremental(taxable_in_band, rate) ==
    IF rate = 0 THEN Zero ELSE Product(taxable_in_band, rate)

NextLower_PlusOne(upper) == upper + 100

\* lower = upper
NextLower(upper) == upper

\* the for loop over the bands from band i on, with the running tax and lower
RECURSIVE BandLoop(_, _, _, _)
BandLoop(chargeable, i, tax, lower) ==
    IF i > Len(brackets) THEN tax
    ELSE IF chargeable <= lower THEN tax
    ELSE BandLoop(chargeable, i + 1,
                  Add(tax, Incremental(TaxableInBand(chargeable, brackets[i].upper, lower),
                                       brackets[i].rate)),
                  NextLower(brackets[i].upper))

\* round(tax, 2).  The floating-point sum differs from the exact amount by far
\* less than a hundredth of a sen, so it rounds as the exact amount does unless
\* the exact amount is half a sen: then the binary value decides, and tie (0
\* or 1) is the direction it takes.
Round2(tax, tie) ==
    tax.sen + (IF tax.e4 > 50 THEN 1 ELSE IF tax.e4 < 50 THEN 0 ELSE tie)

ValueError == [ok |-> FALSE, v |-> 0, err |-> "ValueError"]

Returned(x) == [ok |-> TRUE, v |-> x, err |-> ""]

calculate_tax(income, tax_relief, tie) ==
    LET args == ParseArgs(income, tax_relief)
    IN  IF ~args.ok THEN ValueError
        ELSE Returned(Round2(BandLoop(Chargeable(args.income, args.tax_relief), 1, Zero, 0),
                             tie))

\* -------------------------------------------------------------- verify_user

verify_user_NoFilter(ic_number, password) ==
    IF ic_number.t # "str" \/ password.t # "str" THEN FALSE
    ELSE IF Len(ic_number.s) # 12 THEN FALSE
    ELSE password.s = LastN(ic_number.s, 4)

verify_user(ic_number, password) ==
    IF ic_number.t # "str" \/ password.t # "str" THEN FALSE
    ELSE LET ic_clean == SelectSeq(ic_number.s, IsDigit)
         IN  IF Len(ic_clean) # 12 THEN FALSE
             ELSE password.s = LastN(ic_clean, 4)

\* ------------------------------------------------------------------ files

FileNames == {"users.csv", "tax_records.csv"}

\* A file is its lines, a line its cells, a cell its text.  The cell of a
\* header line holds the column's name as one token.
NoFile == [exists |-> FALSE, lines |-> <<>>]

File(lines) == [exists |-> TRUE, lines |-> lines]

\* a DataFrame: column names and rows of values; None where a function returns it
Frame(columns, rows) == [none |-> FALSE, columns |-> columns, rows |-> rows]

NoneFrame == [none |-> TRUE, columns |-> <<>>, rows |-> <<>>]

\* str(value), which is also the text to_csv writes for it (NaN is written
\* as an empty cell)
StrOf(x) ==
    IF x.t = "float" THEN FloatRepr(x.v)
    ELSE IF x.t = "nan" THEN <<"n", "a", "n">>
    ELSE x.s

ToCell(x) == IF x.t = "nan" THEN <<>> ELSE StrOf(x)

\* DataFrame.to_csv(index=False): the header line when asked, then one line a row
to_csv(df, header) ==
    (IF header THEN << [j \in 1..Len(df.columns) |-> <<df.columns[j]>>] >> ELSE <<>>)
        \o [i \in 1..Len(df.rows) |-> [j \in 1..Len(df.rows[i]) |-> ToCell(df.rows[i][j])]]

\* the text of an integer cell: an optional sign, then digits
IsIntText(cell) == Unsigned(cell) # <<>> /\ AllDigits(Unsigned(cell))

RECURSIVE DropLeadingZeros(_)
DropLeadingZeros(ds) ==
    IF Len(ds) > 1 /\ Head(ds) = "0" THEN DropLeadingZeros(Tail(ds)) ELSE ds

\* the int64 an integer cell is read as, kept as its decimal digits (an IC
\* number does not fit the model checker's integers)
IntOfText(cell) ==
    LET ds == DropLeadingZeros(Unsigned(cell))
    IN  Int64((IF Head(cell) = "-" /\ ds # <<"0">> THEN <<"-">> ELSE <<>>) \o ds)

\* the text of a float cell: an optional sign and a decimal literal
IsNumberText(cell) == IsDecimal(Unsigned(cell))

\* read_csv infers one type for a whole column: int64 when every cell is an
\* integer, float64 when every cell is a number or empty, else object (text)
ColumnKind(cells) ==
    IF cells = <<>> THEN "object"
    ELSE IF \A i \in 1..Len(cells) : IsIntText(cells[i]) THEN "int"
    ELSE IF \A i \in 1..Len(cells) : cells[i] = <<>> \/ IsNumberText(cells[i]) THEN "float"
    ELSE "object"

ReadCell(kind, cell) ==
    IF cell = <<>> THEN NaN
    ELSE IF kind = "int" THEN IntOfText(cell)
    ELSE IF kind = "float" THEN Num(FloatOfText(cell))
    ELSE Str(cell)

\* pd.read_csv of an existing file: the first line names the columns
read_csv(lines) ==
    LET n == Len(lines) - 1
        kind(j) == ColumnKind([i \in 1..n |-> lines[i + 1][j]])
    IN  Frame([j \in 1..Len(lines[1]) |-> lines[1][j][1]],
              [i \in 1..n |-> [j \in 1..Len(lines[1]) |-> ReadCell(kind(j), lines[i + 1][j])]])

\* df[name]: the values of a column
Column(df, name) ==
    LET j == CHOOSE k \in 1..Len(df.columns) : df.columns[k] = name
    IN  [i \in 1..Len(df.rows) |-> df.rows[i][j]]

\* the keys of the dict main() saves, in its order
RecordColumns == <<"ic_number", "income", "tax_relief", "tax_payable">>

\* pd.DataFrame([data])
DictFrame(data) ==
    Frame(RecordColumns,
          << <<data.ic_number, data.income, data.tax_relief, data.tax_payable>> >>)

\* save_to_csv: the file after the call
save_to_csv(data, file) ==
    IF file.exists THEN File(file.lines \o to_csv(DictFrame(data), FALSE))
    ELSE File(to_csv(DictFrame(data), TRUE))

\* read_from_csv: what it returns
read_from_csv(file) ==
    IF ~file.exists THEN NoneFrame ELSE read_csv(file.lines)

\* ------------------------------------------- prompt_registration, prompt_login

UserColumns == <<"user_id", "ic_number">>

\* pd.read_csv("users.csv"), or the empty frame made on FileNotFoundError
UsersFrame(file) == IF file.exists THEN read_csv(file.lines) ELSE Frame(UserColumns, <<>>)

\* no user: what prompt_registration and prompt_login return on failure
NoUser == [none |-> TRUE, user_id |-> <<>>, ic_number |-> <<>>]

UserDict(user_id, ic_number) == [none |-> FALSE, user_id |-> user_id, ic_number |-> ic_number]

\* ic in users_df.get("ic_number", []).astype(str).tolist()
ICRegistered(users_df, ic_text) ==
    \E i \in 1..Len(users_df.rows) : StrOf(Column(users_df, "ic_number")[i]) = ic_text

\* prompt_registration on the three stripped inputs: what it returns and the
\* users.csv it leaves
prompt_registration(file, user_id, ic_text, last4) ==
    IF ~verify_user(Str(ic_text), Str(last4)) THEN [ret |-> NoUser, file |-> file]
    ELSE LET users_df == UsersFrame(file)
         IN  IF ICRegistered(users_df, ic_text) THEN [ret |-> NoUser, file |-> file]
             ELSE [ret |-> UserDict(user_id, ic_text),
                   file |-> File(to_csv(Frame(users_df.columns,
                                              Append(users_df.rows,
                                                     <<Str(user_id), Str(ic_text)>>)),
                                        TRUE))]

\* users_df[users_df['user_id'] == user_id]: the rows whose user id is that text
UserRows(users_df, user_id) ==
    {i \in 1..Len(users_df.rows) :
        LET x == Column(users_df, "user_id")[i] IN x.t = "str" /\ x.s = user_id}

\* prompt_login on the two stripped inputs: what it returns
prompt_login(file, user_id, password) ==
    IF ~file.exists THEN NoUser
    ELSE LET users_df == read_csv(file.lines)
             user_row == UserRows(users_df, user_id)
         IN  IF user_row = {} THEN NoUser
             ELSE LET first == CHOOSE i \in user_row : \A k \in user_row : i <= k
                      ic_text == StrOf(Column(users_df, "ic_number")[first])
                  IN  IF verify_user(Str(ic_text), Str(password))
                      THEN UserDict(user_id, ic_text)
                      ELSE NoUser

NoCall == [op |-> "none", a |-> None, b |-> None, done |-> FALSE, ret |-> None]

\* a fresh working directory, and main() not running
Fresh ==
    /\ files = [f \in FileNames |-> NoFile]
    /\ saved = [f \in FileNames |-> <<>>]
    /\ regs = <<>>
    /\ pc = "idle"
    /\ user = NoUser
    /\ ic = <<>>
    /\ amounts = <<0, 0>>
    /\ tax_payable = 0

\* ------------------------------------------- calculate_tax: specification

\* offsets around every band boundary, in quarters of a ringgit
MaxDelta == 3

BandUppers == {brackets[i].upper : i \in 1..(Len(brackets) - 1)}

IncomeAmounts ==
    {u + 25 * d : u \in BandUppers \cup {0}, d \in (0 - MaxDelta)..MaxDelta}
        \cup {2500000 * 100}

ReliefAmounts == {u + 25 * d : u \in {0, 9000 * 100}, d \in (0 - MaxDelta)..MaxDelta}

TaxTexts ==
    { <<>>, <<"a", "b", "c">>, <<"1", "2", "a">>, <<"-">>, <<".">>,
      <<"1", ".", "2", ".", "3">>, <<"-", "-", "5">>, <<"5", " ", "0">>,
      <<"5", "0", "0", "0">>, <<"2", "0", "0", "0", "0", ".", "5">>,
      <<"-", "1", "0", "0">>, <<".", "5">>, <<"7", ".">>,
      <<" ", "3", "5", "0", "0", "0", " ">>, <<"+", "5">> }

TaxIncomes == {Num(x) : x \in IncomeAmounts} \cup {Str(s) : s \in TaxTexts} \cup {None}

TaxReliefs == {Num(x) : x \in ReliefAmounts} \cup {Str(s) : s \in TaxTexts} \cup {None}

\* the call returns
CalculateTax(tie) ==
    /\ call.op = "calculate_tax" /\ ~call.done
    /\ call' = [call EXCEPT !.done = TRUE, !.ret = calculate_tax(call.a, call.b, tie)]
    /\ UNCHANGED <<files, saved, regs, pc, user, ic, amounts, tax_payable>>

\* calculate_tax is called with any income and any relief
InitTax ==
    /\ call \in {[op |-> "calculate_tax", a |-> income, b |-> tax_relief,
                  done |-> FALSE, ret |-> None] :
                    income \in TaxIncomes, tax_relief \in TaxReliefs}
    /\ Fresh

NextTax == \E tie \in {0, 1} : CalculateTax(tie)

SpecTax == InitTax /\ [][NextTax]_vars

TaxCalled == call.op = "calculate_tax" /\ call.done

\* C1 as the specification states it: calculate_tax(100000, 0) returns 3700.00
C1_Returns3700 ==
    (TaxCalled /\ call.a = Num(100000 * 100) /\ call.b = Num(0))
        => call.ret = Returned(3700 * 100)

\* C1, amended: calculate_tax(100000, 0) returns 9400.00 (3700.00 is the tax
\* on the first 70000, the base of the band that ends at 100000)
C1_Returns9400 ==
    (TaxCalled /\ call.a = Num(100000 * 100) /\ call.b = Num(0))
        => call.ret = Returned(9400 * 100)

C1_Witness ==
    TaxCalled /\ call.a = Num(100000 * 100) /\ call.b = Num(0) /\ call.ret.ok

\* the sum over bands 1..k of band width x band rate, in sen
RECURSIVE CumulativeAt(_)
CumulativeAt(k) ==
    IF k = 0 THEN 0
    ELSE CumulativeAt(k - 1)
         + ((brackets[k].upper - (IF k = 1 THEN 0 ELSE brackets[k - 1].upper)) \div 100)
           * brackets[k].rate

\* C2: at the upper bound u of every finite band, calculate_tax(u, 0) is the
\* sum of band width x band rate over the bands up to the one ending at u
\* (which is the base the table lists for the next band): 0.00 at 5000,
\* 150.00 at 20000, 600.00 at 35000
C2_BoundaryContinuity ==
    \A k \in 1..(Len(brackets) - 1) :
        (TaxCalled /\ call.a = Num(brackets[k].upper) /\ call.b = Num(0))
            => /\ call.ret = Returned(CumulativeAt(k))
               /\ call.ret.v = brackets[k + 1].base
               /\ (k = 1 => call.ret.v = 0)
               /\ (k = 2 => call.ret.v = 150 * 100)
               /\ (k = 3 => call.ret.v = 600 * 100)

C2_Witness ==
    TaxCalled /\ call.a = Num(35000 * 100) /\ call.b = Num(0)
        /\ call.ret = Returned(600 * 100)

\* C3: whenever income <= relief, of either sign, calculate_tax returns 0.00
C3_ZeroWhenIncomeAtMostRelief ==
    (TaxCalled /\ ToFloat(call.a).ok /\ ToFloat(call.b).ok
        /\ ToFloat(call.a).v <= ToFloat(call.b).v)
            => call.ret = Returned(0)

C3_Witness ==
    /\ TaxCalled /\ call.ret.ok
    /\ ToFloat(call.a).v <= ToFloat(call.b).v
    /\ \/ ToFloat(call.a).v > 5000 * 100
       \/ ToFloat(call.b).v < 0

\* C4: calculate_tax does not decrease when income grows with relief fixed,
\* and does not increase when relief grows with income fixed
C4_Monotone ==
    (TaxCalled /\ call.ret.ok) =>
        /\ \A x \in IncomeAmounts, tie \in {0, 1} :
              (x > ToFloat(call.a).v)
                  => calculate_tax(Num(x), call.b, tie).v >= call.ret.v
        /\ \A y \in ReliefAmounts, tie \in {0, 1} :
              (y > ToFloat(call.b).v)
                  => calculate_tax(call.a, Num(y), tie).v <= call.ret.v

C4_Witness ==
    /\ TaxCalled /\ call.ret.ok /\ call.ret.v > 0 /\ ToFloat(call.b).v > 0
    /\ \E x \in IncomeAmounts :
          x > ToFloat(call.a).v /\ calculate_tax(Num(x), call.b, 0).v > call.ret.v
    /\ \E y \in ReliefAmounts :
          y > ToFloat(call.b).v /\ calculate_tax(call.a, Num(y), 0).v < call.ret.v

\* a value that reads as a real number: a number, or text that is (between
\* blanks, after one optional sign) digits with at most one "."
IsRealNumber(x) ==
    \/ x.t = "float"
    \/ /\ x.t = "str"
       /\ LET b == Unsigned(Strip(x.s))
          IN  /\ Cardinality({i \in 1..Len(b) : b[i] = "."}) <= 1
              /\ \A i \in 1..Len(b) : b[i] = "." \/ b[i] \in DigitSet
              /\ \E i \in 1..Len(b) : b[i] \in DigitSet

ICHeads ==
    { D(<<9, 8, 0, 1, 0, 1, 0, 1>>), D(<<0, 1, 0, 1, 0, 1, 0, 1>>),
      D(<<9, 8, 0, 1, 0, 1, 0>>), D(<<9, 8, 0, 1, 0, 1, 0, 1, 1>>) }

ICTails == { D(<<4, 3, 2, 1>>), D(<<0, 0, 4, 2>>) }

\* YYMMDD-PB-###G, the way an IC number is printed
Dashed(s) == SubSeq(s, 1, 6) \o <<"-">> \o SubSeq(s, 7, 8) \o <<"-">> \o SubSeq(s, 9, Len(s))

ICTexts ==
    UNION {{h \o t, Dashed(h \o t), h \o <<"x">> \o t} : h \in ICHeads, t \in ICTails}

PasswordTexts ==
    ICTails \cup { <<>>, D(<<4, 3, 2>>), D(<<9, 8, 0, 1>>), <<"-", "4", "3", "2", "1">> }

VerifyICs == {Str(s) : s \in ICTexts} \cup {None, Int64(D(<<9, 8, 0, 1, 0, 1, 0, 1, 4, 3, 2, 1>>))}

VerifyPasswords == {Str(s) : s \in PasswordTexts} \cup {None, Int64(D(<<4, 3, 2, 1>>))}

\* the call returns
VerifyUser ==
    /\ call.op = "verify_user" /\ ~call.done
    /\ call' = [call EXCEPT !.done = TRUE, !.ret = verify_user(call.a, call.b)]
    /\ UNCHANGED <<files, saved, regs, pc, user, ic, amounts, tax_payable>>

\* verify_user is called with any IC number and any password
InitVerify ==
    /\ call \in {[op |-> "verify_user", a |-> ic_number, b |-> password,
                  done |-> FALSE, ret |-> None] :
                    ic_number \in VerifyICs, password \in VerifyPasswords}
    /\ Fresh

NextVerify == VerifyUser

SpecVerify == InitVerify /\ [][NextVerify]_vars

VerifyCalled == call.op = "verify_user" /\ call.done

\* the positions of the digits of a text, and the k-th digit from its end
DigitPositions(s) == {i \in 1..Len(s) : s[i] \in DigitSet}

DigitFromEnd(s, k) ==
    s[CHOOSE p \in DigitPositions(s) : Cardinality({j \in DigitPositions(s) : j >= p}) = k]

MaxRecords == 2

IC_A == D(<<9, 8, 0, 1, 0, 1, 0, 1, 4, 3, 2, 1>>)

IC_Zero == D(<<0, 1, 0, 1, 0, 1, 0, 1, 4, 3, 2, 1>>)

\* the dicts main() builds: the IC number of a user and the amounts of a run
SavedDicts ==
    {[ic_number |-> Str(i), income |-> Num(x), tax_relief |-> Num(r),
      tax_payable |-> Num(calculate_tax(Num(x), Num(r), 0).v)] :
        i \in {IC_A, IC_Zero, Dashed(IC_A)},
        x \in {60000 * 100, 500050},
        r \in {0, 9000 * 100}}

SaveToCsv(data, filename) ==
    /\ Len(saved[filename]) < MaxRecords
    /\ files' = [files EXCEPT ![filename] = save_to_csv(data, files[filename])]
    /\ saved' = [saved EXCEPT ![filename] = Append(saved[filename], data)]
    /\ call' = [op |-> "save_to_csv", a |-> filename, b |-> data, done |-> TRUE,
                ret |-> NoneFrame]
    /\ UNCHANGED <<regs, pc, user, ic, amounts, tax_payable>>

ReadFromCsv(filename) ==
    /\ call' = [op |-> "read_from_csv", a |-> filename, b |-> None, done |-> TRUE,
                ret |-> read_from_csv(files[filename])]
    /\ UNCHANGED <<files, saved, regs, pc, user, ic, amounts, tax_payable>>

InitStore == call = NoCall /\ Fresh

NextStore ==
    \/ \E data \in SavedDicts, filename \in FileNames : SaveToCsv(data, filename)
    \/ \E filename \in FileNames : ReadFromCsv(filename)

SpecStore == InitStore /\ [][NextStore]_vars

\* the values of a saved dict, in column order
DictValues(data) == <<data.ic_number, data.income, data.tax_relief, data.tax_payable>>

\* C7: with no file read_from_csv returns None; after n >= 1 saves the file is
\* one header line and the n records in call order, and read_from_csv
\* returns exactly those n records
C7_AppendThenReadBack ==
    \A f \in FileNames :
        LET n == Len(saved[f])
            read == call.op = "read_from_csv" /\ call.a = f
        IN  /\ (n = 0) => (~files[f].exists /\ (read => call.ret.none))
            /\ (n >= 1) =>
                  /\ files[f].exists
                  /\ Len(files[f].lines) = n + 1
                  /\ files[f].lines[1] = [j \in 1..4 |-> <<RecordColumns[j]>>]
                  /\ \A i \in 1..n :
                        files[f].lines[i + 1] = [j \in 1..4 |-> StrOf(DictValues(saved[f][i])[j])]
                  /\ read =>
                        /\ ~call.ret.none
                        /\ call.ret.columns = RecordColumns
                        /\ Len(call.ret.rows) = n
                        /\ \A i \in 1..n : \A j \in 1..4 :
                              StrOf(call.ret.rows[i][j]) = StrOf(DictValues(saved[f][i])[j])

\* the part of C7 about the file alone
C7_FileHoldsHeaderAndRows ==
    \A f \in FileNames :
        LET n == Len(saved[f])
        IN  /\ (n = 0) => ~files[f].exists
            /\ (n >= 1) =>
                  /\ Len(files[f].lines) = n + 1
                  /\ files[f].lines[1] = [j \in 1..4 |-> <<RecordColumns[j]>>]
                  /\ \A i \in 1..n :
                        files[f].lines[i + 1] = [j \in 1..4 |-> StrOf(DictValues(saved[f][i])[j])]

\* ------------------------------ prompt_registration, prompt_login: specification

\* the users users.csv may grow to
MaxUsers == 3

UserIds == { <<"a", "l", "i">>, <<"b", "o", "b">>, D(<<1, 2, 3>>) }

RegistrationICs == {IC_A, IC_Zero, Dashed(IC_A), D(<<9, 8, 0, 1, 0, 1, 0, 1, 4, 3, 2>>)}

Passwords == {D(<<4, 3, 2, 1>>), D(<<0, 0, 4, 2>>)}

UserRowCount == IF files["users.csv"].exists THEN Len(files["users.csv"].lines) - 1 ELSE 0

PromptRegistration(user_id, ic_text, last4) ==
    LET r == prompt_registration(files["users.csv"], user_id, ic_text, last4)
    IN  /\ UserRowCount < MaxUsers
        /\ files' = [files EXCEPT !["users.csv"] = r.file]
        /\ regs' = IF r.ret.none THEN regs
                   ELSE Append(regs, [user_id |-> user_id, ic_number |-> ic_text])
        /\ call' = [op |-> "prompt_registration", a |-> Str(user_id), b |-> Str(ic_text),
                    done |-> TRUE, ret |-> r.ret]
        /\ UNCHANGED <<saved, pc, user, ic, amounts, tax_payable>>

PromptLogin(user_id, password) ==
    /\ call' = [op |-> "prompt_login", a |-> Str(user_id), b |-> Str(password),
                done |-> TRUE, ret |-> prompt_login(files["users.csv"], user_id, password)]
    /\ UNCHANGED <<files, saved, regs, pc, user, ic, amounts, tax_payable>>

InitUsers == call = NoCall /\ Fresh

NextUsers ==
    \/ \E user_id \in UserIds, ic_text \in RegistrationICs, last4 \in Passwords :
          PromptRegistration(user_id, ic_text, last4)
    \/ \E user_id \in UserIds, password \in Passwords : PromptLogin(user_id, password)

SpecUsers == InitUsers /\ [][NextUsers]_vars

\* the rows of users.csv, as text, that carry a user id
StoredWithUserId(user_id) ==
    {i \in 2..Len(files["users.csv"].lines) : files["users.csv"].lines[i][1] = user_id}

\* C9: once (user_id, ic) is registered and no other stored row has that user
\* id, prompt_login with that user id and the last 4 digits of that IC returns
\* that user id and that IC, for every IC verify_user accepts
C9_RegisterThenLogin ==
    \A k \in 1..Len(regs) :
        (/\ call.op = "prompt_login"
         /\ call.a.s = regs[k].user_id
         /\ call.b.s = LastN(SelectSeq(regs[k].ic_number, IsDigit), 4)
         /\ \A m \in 1..Len(regs) : m # k => regs[m].user_id # regs[k].user_id
         /\ Cardinality(StoredWithUserId(regs[k].user_id)) <= 1)
            => call.ret = UserDict(regs[k].user_id, regs[k].ic_number)

\* C10: users.csv never holds two rows for one IC number: no IC number
\* string is registered successfully twice
C10_OneRowPerIC ==
    /\ UserRowCount = Len(regs)
    /\ \A k \in 1..Len(regs) : \A m \in 1..Len(regs) :
          m # k => regs[m].ic_number # regs[k].ic_number

\* ------------------------------------------------------------------- main

ChoiceInputs == {"l", "r", "x"}

ViewInputs == {"y", "n"}

AmountTexts ==
    { <<"6", "0", "0", "0", "0">>, <<"9", "0", "0", "0", ".", "5">>, <<"0">>,
      <<"-", "5">>, <<"a", "b", "c">> }

MainLocals == <<user, ic, amounts, tax_payable>>

\* a run of the program begins: lines 88-97, up to the first prompt
Main_Start ==
    /\ pc = "idle"
    /\ UserRowCount < MaxUsers
    /\ Len(saved["tax_records.csv"]) < MaxRecords
    /\ LET registered == /\ files["users.csv"].exists
                         /\ read_csv(files["users.csv"].lines).rows # <<>>
       IN  pc' = IF ~registered THEN "register" ELSE "choice"
    /\ user' = NoUser
    /\ UNCHANGED <<call, files, saved, regs, ic, amounts, tax_payable>>

\* the registration a run records
Registered(r, user_id, ic_text) ==
    IF r.ret.none THEN regs ELSE Append(regs, [user_id |-> user_id, ic_number |-> ic_text])

\* lines 98-102: no registered user, so registration; it fails and main returns
Main_Register(user_id, ic_text, last4) ==
    LET reg == prompt_registration(files["users.csv"], user_id, ic_text, last4)
    IN  /\ pc = "register"
        /\ files' = [files EXCEPT !["users.csv"] = reg.file]
        /\ regs' = Registered(reg, user_id, ic_text)
        /\ user' = IF reg.ret.none THEN user ELSE reg.ret
        /\ pc' = IF reg.ret.none THEN "returned" ELSE "deref"
        /\ UNCHANGED <<call, saved, ic, amounts, tax_payable>>

\* line 105-106: login or register
Main_Choice(choice) ==
    /\ pc = "choice"
    /\ pc' = IF choice = "r" THEN "choice_register" ELSE "login"
    /\ UNCHANGED <<call, files, saved, regs, user, ic, amounts, tax_payable>>

\* lines 107-110: registration chosen; when it fails main goes on to a login
Main_ChoiceRegister(user_id, ic_text, last4) ==
    LET reg == prompt_registration(files["users.csv"], user_id, ic_text, last4)
    IN  /\ pc = "choice_register"
        /\ files' = [files EXCEPT !["users.csv"] = reg.file]
        /\ regs' = Registered(reg, user_id, ic_text)
        /\ user' = IF reg.ret.none THEN user ELSE reg.ret
        /\ pc' = IF reg.ret.none THEN "fallback_login" ELSE "deref"
        /\ UNCHANGED <<call, saved, ic, amounts, tax_payable>>

\* lines 111-112: the login after a failed registration; its result is not tested
Main_FallbackLogin(user_id, password) ==
    /\ pc = "fallback_login"
    /\ user' = prompt_login(files["users.csv"], user_id, password)
    /\ pc' = "deref"
    /\ UNCHANGED <<call, files, saved, regs, ic, amounts, tax_payable>>

\* lines 113-116: login chosen; main returns when it fails
Main_Login(user_id, password) ==
    /\ pc = "login"
    /\ user' = prompt_login(files["users.csv"], user_id, password)
    /\ pc' = IF user'.none THEN "returned" ELSE "deref"
    /\ UNCHANGED <<call, files, saved, regs, ic, amounts, tax_payable>>

\* line 119: ic = user['ic_number'], a TypeError that ends the run when user is None
Main_Deref ==
    /\ pc = "deref"
    /\ pc' = IF user.none THEN "TypeError" ELSE "income"
    /\ ic' = IF user.none THEN ic ELSE user.ic_number
    /\ UNCHANGED <<call, files, saved, regs, user, amounts, tax_payable>>

\* collect_income_and_relief, first loop: asks again until a non-negative number
Main_Income(text) ==
    /\ pc = "income"
    /\ LET x == ToFloat(Str(Strip(text)))
       IN  IF ~x.ok \/ x.v < 0 THEN UNCHANGED <<pc, amounts>>
           ELSE pc' = "relief" /\ amounts' = <<x.v, amounts[2]>>
    /\ UNCHANGED <<call, files, saved, regs, user, ic, tax_payable>>

\* collect_income_and_relief, second loop
Main_Relief(text) ==
    /\ pc = "relief"
    /\ LET x == ToFloat(Str(Strip(text)))
       IN  IF ~x.ok \/ x.v < 0 THEN UNCHANGED <<pc, amounts>>
           ELSE pc' = "calculate" /\ amounts' = <<amounts[1], x.v>>
    /\ UNCHANGED <<call, files, saved, regs, user, ic, tax_payable>>

\* line 125
Main_Calculate(tie) ==
    /\ pc = "calculate"
    /\ tax_payable' = calculate_tax(Num(amounts[1]), Num(amounts[2]), tie).v
    /\ pc' = "save"
    /\ UNCHANGED <<call, files, saved, regs, user, ic, amounts>>

\* the dict of lines 129-134
MainData ==
    [ic_number |-> Str(ic), income |-> Num(amounts[1]), tax_relief |-> Num(amounts[2]),
     tax_payable |-> Num(tax_payable)]

\* lines 135-139
Main_Save ==
    /\ pc = "save"
    /\ files' = [files EXCEPT !["tax_records.csv"] = save_to_csv(MainData, @)]
    /\ saved' = [saved EXCEPT !["tax_records.csv"] = Append(@, MainData)]
    /\ pc' = "view"
    /\ UNCHANGED <<call, regs, user, ic, amounts, tax_payable>>

\* lines 142-144: display_records reads the records when asked
Main_View(view) ==
    /\ pc = "view"
    /\ call' = IF view = "y"
               THEN [op |-> "read_from_csv", a |-> "tax_records.csv", b |-> None,
                     done |-> TRUE, ret |-> read_from_csv(files["tax_records.csv"])]
               ELSE call
    /\ pc' = "returned"
    /\ UNCHANGED <<files, saved, regs, user, ic, amounts, tax_payable>>

\* the process ends; the files stay for the next run
Main_Exit ==
    /\ pc \in {"returned", "TypeError"}
    /\ pc' = "idle"
    /\ user' = NoUser /\ ic' = <<>> /\ amounts' = <<0, 0>> /\ tax_payable' = 0
    /\ call' = NoCall
    /\ UNCHANGED <<files, saved, regs>>

InitMain == call = NoCall /\ Fresh

NextMain ==
    \/ Main_Start
    \/ \E user_id \in UserIds, ic_text \in RegistrationICs, last4 \in Passwords :
          Main_Register(user_id, ic_text, last4)
    \/ \E choice \in ChoiceInputs : Main_Choice(choice)
    \/ \E user_id \in UserIds, ic_text \in RegistrationICs, last4 \in Passwords :
          Main_ChoiceRegister(user_id, ic_text, last4)
    \/ \E user_id \in UserIds, password \in Passwords : Main_FallbackLogin(user_id, password)
    \/ \E user_id \in UserIds, password \in Passwords : Main_Login(user_id, password)
    \/ Main_Deref
    \/ \E text \in AmountTexts : Main_Income(text)
    \/ \E text \in AmountTexts : Main_Relief(text)
    \/ \E tie \in {0, 1} : Main_Calculate(tie)
    \/ Main_Save
    \/ \E view \in ViewInputs : Main_View(view)
    \/ Main_Exit

SpecMain == InitMain /\ [][NextMain]_vars

\* C8: main dereferences user, and collects, computes and saves, only with a
\* user that a registration or a login returned; when authentication fails it
\* returns before the dereference
C8_UserBoundBeforeUse ==
    /\ pc \in {"deref", "income", "relief", "calculate", "save"} => ~user.none
    /\ pc # "TypeError"

====
